---- MODULE Spec2Model ----
(***************************************************************************)
(* Model of the d-ary max-heap of src/src/heap.rs (struct Heap and its     *)
(* methods).  The heap is the triple (array, size, d); every public method *)
(* is one action, computed by operators that follow the Rust code line by  *)
(* line.  The capacity and the value range are scaled down so that the     *)
(* state space is finite.                                                  *)
(***************************************************************************)
EXTENDS Integers, Sequences, FiniteSets

(* ---- bounds ---- *)
\* capacity of the backing array (1000 in heap.rs, scaled down here)
HEAP_MAX_SIZE == 4
\* stored values are 0..MaxVal; -1 is the filler of unused slots
MaxVal == 2
\* branching factors are 0..MaxD
MaxD == 3
\* the menu's "Build heap" reads at most MaxMenuLen numbers
MaxMenuLen == 2

Vals == 0..MaxVal
AllVals == -1..MaxVal
DAll == 0..MaxD
DPos == 1..MaxD
Idx == 0..(HEAP_MAX_SIZE - 1)

\* all input slices of length 0 .. HEAP_MAX_SIZE + 1
Slices == UNION {[1..n -> Vals] : n \in 0..(HEAP_MAX_SIZE + 1)}

\* array, size, d: the fields of the Heap; call, ret: the last call and what
\* it returned; panicked: the run was aborted; out: what the last call
\* printed; pc, cur: the position of a sift that runs step by step;
\* heap: whether the Option<Heap> of main holds a heap
VARIABLES array, size, d, call, ret, panicked, out, pc, cur, heap

vars == <<array, size, d, call, ret, panicked, out, pc, cur, heap>>

\* the heap object as a record
Self == [array |-> array, size |-> size, d |-> d]

Min(a, b) == IF a < b THEN a ELSE b

Ok(v) == [tag |-> "Ok", val |-> v]
Err(t) == [tag |-> t, val |-> 0]

(* ---- index arithmetic ---- *)

\* faulty parent index: idx / d instead of (idx - 1) / d
get_parent_off(h, idx) ==
    IF idx = 0 THEN Err("ParentReachedEnd")
    ELSE IF h.d = 0 THEN Err("DivByZero")
    ELSE LET parent_idx == idx \div h.d IN
         IF parent_idx < h.size THEN Ok(parent_idx) ELSE Err("NoSuchParent")

\* faulty parent index: (idx + 1) / d instead of (idx - 1) / d
get_parent_succ(h, idx) ==
    IF idx = 0 THEN Err("ParentReachedEnd")
    ELSE IF h.d = 0 THEN Err("DivByZero")
    ELSE LET parent_idx == (idx + 1) \div h.d IN
         IF parent_idx < h.size THEN Ok(parent_idx) ELSE Err("NoSuchParent")

\* get_parent: Err(ParentReachedEnd) at the root; the division panics when
\* d = 0; Err(NoSuchParent) when the quotient is not a live index.
get_parent(h, idx) ==
    IF idx = 0 THEN Err("ParentReachedEnd")
    ELSE IF h.d = 0 THEN Err("DivByZero")
    ELSE LET parent_idx == (idx - 1) \div h.d IN
         IF parent_idx < h.size THEN Ok(parent_idx) ELSE Err("NoSuchParent")

\* faulty child index: the slot n = d is accepted
get_n_son_loose(h, idx, n) ==
    IF n > h.d THEN Err("InvalidSonIndex")
    ELSE LET son_idx == idx * h.d + n + 1 IN
         IF son_idx < h.size THEN Ok(son_idx) ELSE Err("SonReachedEnd")

get_n_son(h, idx, n) ==
    IF n >= h.d THEN Err("InvalidSonIndex")
    ELSE LET son_idx == idx * h.d + n + 1 IN
         IF son_idx < h.size THEN Ok(son_idx) ELSE Err("SonReachedEnd")

(* ---- sift-down ---- *)

\* faulty child scan: each child is compared with the value at idx, so the
\* last child that exceeds it wins, not the largest
RECURSIVE scan_sons_last(_, _, _, _, _)
scan_sons_last(h, idx, n, largest_idx, largest_val) ==
    IF n >= h.d THEN [idx |-> largest_idx, val |-> largest_val, err |-> "None"]
    ELSE LET r == get_n_son(h, idx, n) IN
         IF r.tag = "Ok"
         THEN IF h.array[r.val] > h.array[idx]
              THEN scan_sons_last(h, idx, n + 1, r.val, h.array[r.val])
              ELSE scan_sons_last(h, idx, n + 1, largest_idx, largest_val)
         ELSE IF r.tag = "SonReachedEnd"
         THEN scan_sons_last(h, idx, n + 1, largest_idx, largest_val)
         ELSE [idx |-> largest_idx, val |-> largest_val, err |-> r.tag]

\* faulty child scan: a child equal to the running largest value wins
RECURSIVE scan_sons_ties(_, _, _, _, _)
scan_sons_ties(h, idx, n, largest_idx, largest_val) ==
    IF n >= h.d THEN [idx |-> largest_idx, val |-> largest_val, err |-> "None"]
    ELSE LET r == get_n_son(h, idx, n) IN
         IF r.tag = "Ok"
         THEN IF h.array[r.val] >= largest_val
              THEN scan_sons_ties(h, idx, n + 1, r.val, h.array[r.val])
              ELSE scan_sons_ties(h, idx, n + 1, largest_idx, largest_val)
         ELSE IF r.tag = "SonReachedEnd"
         THEN scan_sons_ties(h, idx, n + 1, largest_idx, largest_val)
         ELSE [idx |-> largest_idx, val |-> largest_val, err |-> r.tag]

\* faulty child scan: SonReachedEnd is propagated instead of skipped
RECURSIVE scan_sons_strict(_, _, _, _, _)
scan_sons_strict(h, idx, n, largest_idx, largest_val) ==
    IF n >= h.d THEN [idx |-> largest_idx, val |-> largest_val, err |-> "None"]
    ELSE LET r == get_n_son(h, idx, n) IN
         IF r.tag = "Ok"
         THEN IF h.array[r.val] > largest_val
              THEN scan_sons_strict(h, idx, n + 1, r.val, h.array[r.val])
              ELSE scan_sons_strict(h, idx, n + 1, largest_idx, largest_val)
         ELSE [idx |-> largest_idx, val |-> largest_val, err |-> r.tag]

\* the loop "for n_son in 0..self.d" of heapify_down, from n_son = n on,
\* with the running largest_idx / largest_val
RECURSIVE scan_sons(_, _, _, _, _)
scan_sons(h, idx, n, largest_idx, largest_val) ==
    IF n >= h.d THEN [idx |-> largest_idx, val |-> largest_val, err |-> "None"]
    ELSE LET r == get_n_son(h, idx, n) IN
         IF r.tag = "Ok"
         THEN IF h.array[r.val] > largest_val
              THEN scan_sons(h, idx, n + 1, r.val, h.array[r.val])
              ELSE scan_sons(h, idx, n + 1, largest_idx, largest_val)
         ELSE IF r.tag = "SonReachedEnd"
         THEN scan_sons(h, idx, n + 1, largest_idx, largest_val)
         ELSE [idx |-> largest_idx, val |-> largest_val, err |-> r.tag]

\* faulty exchange: the displaced value is not written down to largest_idx
swap_down_lossy(a, idx, largest_idx, largest_val) ==
    [a EXCEPT ![idx] = largest_val]

\* the exchange of heapify_down: the value at idx goes down to largest_idx,
\* largest_val comes up to idx
swap_down(a, idx, largest_idx, largest_val) ==
    [a EXCEPT ![largest_idx] = a[idx], ![idx] = largest_val]

RECURSIVE heapify_down(_, _)
heapify_down(h, idx) ==
    LET s == scan_sons(h, idx, 0, idx, h.array[idx]) IN
    IF s.err # "None" THEN [h |-> h, ret |-> Err(s.err)]
    ELSE IF s.idx # idx
    THEN heapify_down([h EXCEPT !.array = swap_down(h.array, idx, s.idx, s.val)], s.idx)
    ELSE [h |-> h, ret |-> Ok(0)]

(* ---- sift-up ---- *)

swap_up(a, idx, smallest_idx, smallest_val) ==
    [a EXCEPT ![smallest_idx] = a[idx], ![idx] = smallest_val]

\* faulty sift-up: one exchange with the parent, no further climbing
heapify_up_once(h, idx) ==
    LET p == get_parent(h, idx) IN
    IF p.tag = "ParentReachedEnd" THEN [h |-> h, ret |-> Ok(0)]
    ELSE IF p.tag # "Ok" THEN [h |-> h, ret |-> p]
    ELSE IF h.array[p.val] < h.array[idx]
    THEN [h |-> [h EXCEPT !.array = swap_up(h.array, idx, p.val, h.array[p.val])],
          ret |-> Ok(0)]
    ELSE [h |-> h, ret |-> Ok(0)]

RECURSIVE heapify_up(_, _)
heapify_up(h, idx) ==
    LET p == get_parent(h, idx) IN
    IF p.tag = "ParentReachedEnd" THEN [h |-> h, ret |-> Ok(0)]
    ELSE IF p.tag # "Ok" THEN [h |-> h, ret |-> p]
    ELSE IF h.array[p.val] < h.array[idx]
    THEN heapify_up([h EXCEPT !.array = swap_up(h.array, idx, p.val, h.array[p.val])], p.val)
    ELSE [h |-> h, ret |-> Ok(0)]

(* ---- rebuild ---- *)

\* one past the first index that build_heap visits: i runs over
\* (0..size/2).rev()
build_range(sz) == sz \div 2

\* build_heap from index i down to 0; heapify_down(i).unwrap() panics on Err
RECURSIVE build_from(_, _)
build_from(h, i) ==
    IF i < 0 THEN [h |-> h, ret |-> Ok(0)]
    ELSE LET r == heapify_down(h, i) IN
         IF r.ret.tag # "Ok" THEN [h |-> r.h, ret |-> Err("Panic")]
         ELSE build_from(r.h, i - 1)

build_heap(h) == build_from(h, build_range(h.size) - 1)

(* ---- public methods ---- *)

\* the number of elements Heap::new copies
slice_len(slice) == Min(Len(slice), HEAP_MAX_SIZE)

\* faulty copy: keeps the last n input values instead of the first n
copy_from_slice_tail(slice, n) ==
    [i \in Idx |-> IF i < n THEN slice[Len(slice) - n + i + 1] ELSE -1]

\* array[..slice_len].copy_from_slice(&slice[..slice_len]) on [-1; MAX]
copy_from_slice(slice, n) ==
    [i \in Idx |-> IF i < n THEN slice[i + 1] ELSE -1]

new(dd, slice) ==
    build_heap([array |-> copy_from_slice(slice, slice_len(slice)),
                size |-> slice_len(slice),
                d |-> dd])

\* the capacity test of insert
is_full(sz) == sz >= HEAP_MAX_SIZE

\* faulty insert: a full heap silently overwrites its last slot
insert_overwrite(h, item) ==
    IF is_full(h.size)
    THEN [h |-> [h EXCEPT !.array[h.size - 1] = item], ret |-> Ok(0)]
    ELSE LET h1 == [h EXCEPT !.array[h.size] = item, !.size = h.size + 1] IN
         heapify_up(h1, h1.size - 1)

\* faulty insert: size is incremented before the capacity test
insert_count_first(h, item) ==
    IF is_full(h.size)
    THEN [h |-> [h EXCEPT !.size = h.size + 1], ret |-> Err("HeapFull")]
    ELSE LET h1 == [h EXCEPT !.array[h.size] = item, !.size = h.size + 1] IN
         heapify_up(h1, h1.size - 1)

insert(h, item) ==
    IF is_full(h.size) THEN [h |-> h, ret |-> Err("HeapFull")]
    ELSE LET h1 == [h EXCEPT !.array[h.size] = item, !.size = h.size + 1] IN
         heapify_up(h1, h1.size - 1)

\* faulty removal: the last element is dropped instead of moved to the root
move_last_drop(h) ==
    [h EXCEPT !.size = h.size - 1]

\* array[0] = array[size - 1]; size -= 1
move_last(h) ==
    [h EXCEPT !.array[0] = h.array[h.size - 1], !.size = h.size - 1]

\* faulty extract_max: no emptiness test, the stale root is returned
extract_max_unchecked(h) ==
    IF h.size = 0 THEN [h |-> h, ret |-> Ok(h.array[0])]
    ELSE LET max == h.array[0]
             r == heapify_down(move_last(h), 0) IN
         IF r.ret.tag # "Ok" THEN r ELSE [h |-> r.h, ret |-> Ok(max)]

extract_max(h) ==
    IF h.size = 0 THEN [h |-> h, ret |-> Err("EmptyHeap")]
    ELSE LET max == h.array[0]
             r == heapify_down(move_last(h), 0) IN
         IF r.ret.tag # "Ok" THEN r ELSE [h |-> r.h, ret |-> Ok(max)]

change_d(h, dd) == build_heap([h EXCEPT !.d = dd])

(* ---- display ---- *)

\* faulty level width: the count grows by d instead of multiplying by d
next_count_add(count, dd) == count + dd

\* count *= self.d as usize
next_count(count, dd) == count * dd

\* the values printed for one level: array[start..end)
level_vals(h, start, end) ==
    [j \in 1..(end - start) |-> h.array[start + j - 1]]

\* the loop "while start < self.size" of print.  When end = start the
\* count is 0 and stays 0, start no longer advances and the loop never
\* exits: returns is FALSE and the levels printed so far are kept.
RECURSIVE print_levels(_, _, _, _)
print_levels(h, start, count, level) ==
    IF ~(start < h.size) THEN [levels |-> <<>>, returns |-> TRUE]
    ELSE LET end == Min(h.size, start + count)
             line == [level |-> level, vals |-> level_vals(h, start, end)] IN
         IF end = start THEN [levels |-> <<line>>, returns |-> FALSE]
         ELSE LET rest == print_levels(h, end, next_count(count, h.d), level + 1) IN
              [levels |-> <<line>> \o rest.levels, returns |-> rest.returns]

\* nothing printed
NoOut == [d |-> 0, empty |-> FALSE, levels |-> <<>>]

print(h) ==
    IF h.size = 0
    THEN [out |-> [d |-> h.d, empty |-> TRUE, levels |-> <<>>], ret |-> Ok(0)]
    ELSE LET r == print_levels(h, 0, 1, 0) IN
         [out |-> [d |-> h.d, empty |-> FALSE, levels |-> r.levels],
          ret |-> IF r.returns THEN Ok(0) ELSE Err("NoReturn")]

(* ---- the state machine ---- *)

\* a panic (division by zero, unwrap of Err) aborts the program
IsPanic(r) == r.tag \in {"DivByZero", "Panic"}

Apply(r, c) ==
    /\ array' = r.h.array
    /\ size' = r.h.size
    /\ d' = r.h.d
    /\ call' = c
    /\ ret' = r.ret
    /\ panicked' = IsPanic(r.ret)
    /\ out' = NoOut
    /\ UNCHANGED <<pc, cur, heap>>

CallRec(op, dd, item, slice) ==
    [op |-> op, d |-> dd, item |-> item, slice |-> slice, idx |-> 0, n |-> 0]

\* a call of one of the private methods, with its index arguments
InnerCall(op, idx, n) ==
    [op |-> op, d |-> 0, item |-> 0, slice |-> <<>>, idx |-> idx, n |-> n]

InitD(DS) ==
    \E dd \in DS, slice \in Slices :
        LET r == new(dd, slice) IN
        /\ array = r.h.array
        /\ size = r.h.size
        /\ d = r.h.d
        /\ call = CallRec("new", dd, 0, slice)
        /\ ret = r.ret
        /\ panicked = IsPanic(r.ret)
        /\ out = NoOut
        /\ pc = "idle"
        /\ cur = 0
        /\ heap = "Some"

Insert ==
    /\ ~panicked
    /\ \E item \in Vals :
        Apply(insert(Self, item), CallRec("insert", 0, item, <<>>))

ExtractMax ==
    /\ ~panicked
    /\ Apply(extract_max(Self), CallRec("extract_max", 0, 0, <<>>))

ChangeDD(DS) ==
    /\ ~panicked
    /\ \E dd \in DS :
        Apply(change_d(Self, dd), CallRec("change_d", dd, 0, <<>>))

\* print(&self): the heap is borrowed immutably; a print that never returns
\* ends the run
Display ==
    /\ ~panicked
    /\ LET r == print(Self) IN
        /\ call' = CallRec("print", 0, 0, <<>>)
        /\ ret' = r.ret
        /\ out' = r.out
        /\ panicked' = (r.ret.tag = "NoReturn")
        /\ UNCHANGED <<array, size, d, pc, cur, heap>>

\* A Heap object starts its life in Heap::new (Construct) and is then
\* driven by insert, extract_max, change_d and print.
\* Spec: every branching factor a u32 can hold (0 included)
Init == InitD(DAll)
ChangeD == ChangeDD(DAll)
Next == Insert \/ ExtractMax \/ ChangeD \/ Display
Spec == Init /\ [][Next]_vars

\* SpecPos: only branching factors >= 1
InitPos == InitD(DPos)
ChangeDPos == ChangeDD(DPos)
NextPos == Insert \/ ExtractMax \/ ChangeDPos \/ Display
SpecPos == InitPos /\ [][NextPos]_vars

(* ---- the private methods, called on arbitrary storage ---- *)

\* the live prefixes a test can put into the array (the fields are visible
\* to the tests module, which overwrites array[0] directly)
Storages ==
    UNION {{[i \in Idx |-> IF i < n THEN s[i + 1] ELSE -1] : s \in [1..n -> Vals]} :
           n \in 0..HEAP_MAX_SIZE}

InitInner ==
    /\ array \in Storages
    /\ size \in 0..HEAP_MAX_SIZE
    /\ \A i \in Idx : i < size <=> array[i] # -1
    /\ d \in DAll
    /\ call = CallRec("none", 0, 0, <<>>)
    /\ ret = Ok(0)
    /\ panicked = FALSE
    /\ out = NoOut
    /\ pc = "idle"
    /\ cur = 0
    /\ heap = "Some"

HeapifyDown ==
    /\ ~panicked
    /\ \E idx \in Idx :
        Apply(heapify_down(Self, idx), InnerCall("heapify_down", idx, 0))

HeapifyUp ==
    /\ ~panicked
    /\ \E idx \in Idx :
        Apply(heapify_up(Self, idx), InnerCall("heapify_up", idx, 0))

GetParent ==
    /\ ~panicked
    /\ \E idx \in 0..HEAP_MAX_SIZE :
        Apply([h |-> Self, ret |-> get_parent(Self, idx)],
              InnerCall("get_parent", idx, 0))

GetNSon ==
    /\ ~panicked
    /\ \E idx \in Idx, n \in 0..MaxD :
        Apply([h |-> Self, ret |-> get_n_son(Self, idx, n)],
              InnerCall("get_n_son", idx, n))

\* SpecInner: the two sifts (and insert, which sifts up) on arbitrary storage
NextInner == HeapifyDown \/ HeapifyUp \/ Insert
SpecInner == InitInner /\ [][NextInner]_vars

\* SpecIndex: the two index queries on arbitrary storage
NextIndex == GetParent \/ GetNSon
SpecIndex == InitInner /\ [][NextIndex]_vars

(* ---- the sifts, one recursive call per step ---- *)

\* the live values of a storage, as a sequence
LiveSeq(a, sz) == [i \in 1..sz |-> a[i - 1]]

\* a sift has just been called at a live index cur of an arbitrary storage;
\* call.slice remembers the storage it was called on
InitSift ==
    /\ array \in Storages
    /\ size \in 1..HEAP_MAX_SIZE
    /\ \A i \in Idx : i < size <=> array[i] # -1
    /\ d \in DPos
    /\ pc \in {"down", "up"}
    /\ cur \in 0..(size - 1)
    /\ call = [op |-> IF pc = "down" THEN "heapify_down" ELSE "heapify_up",
               d |-> 0, item |-> 0, slice |-> LiveSeq(array, size),
               idx |-> cur, n |-> 0]
    /\ ret = Ok(0)
    /\ panicked = FALSE
    /\ out = NoOut
    /\ heap = "Some"

\* one activation of heapify_down(cur): scan the children, then either
\* exchange and call heapify_down(largest_idx), or return
DownStep ==
    /\ pc = "down"
    /\ LET s == scan_sons(Self, cur, 0, cur, array[cur]) IN
       IF s.err # "None"
       THEN /\ ret' = Err(s.err)
            /\ pc' = "done"
            /\ UNCHANGED <<array, cur>>
       ELSE IF s.idx # cur
       THEN /\ array' = swap_down(array, cur, s.idx, s.val)
            /\ cur' = s.idx
            /\ UNCHANGED <<ret, pc>>
       ELSE /\ ret' = Ok(0)
            /\ pc' = "done"
            /\ UNCHANGED <<array, cur>>
    /\ panicked' = IsPanic(ret')
    /\ UNCHANGED <<size, d, call, out, heap>>

\* one activation of heapify_up(cur): look at the parent, then either
\* exchange and call heapify_up(parent_idx), or return
UpStep ==
    /\ pc = "up"
    /\ LET p == get_parent(Self, cur) IN
       IF p.tag = "ParentReachedEnd"
       THEN /\ ret' = Ok(0)
            /\ pc' = "done"
            /\ UNCHANGED <<array, cur>>
       ELSE IF p.tag # "Ok"
       THEN /\ ret' = p
            /\ pc' = "done"
            /\ UNCHANGED <<array, cur>>
       ELSE IF array[p.val] < array[cur]
       THEN /\ array' = swap_up(array, cur, p.val, array[p.val])
            /\ cur' = p.val
            /\ UNCHANGED <<ret, pc>>
       ELSE /\ ret' = Ok(0)
            /\ pc' = "done"
            /\ UNCHANGED <<array, cur>>
    /\ panicked' = IsPanic(ret')
    /\ UNCHANGED <<size, d, call, out, heap>>

\* SpecSift: the calls are synchronous, so a sift that can take its next
\* step does take it
NextSift == DownStep \/ UpStep
SpecSift ==
    InitSift /\ [][NextSift]_vars /\ WF_vars(DownStep) /\ WF_vars(UpStep)

\* the steps end in the result of the recursive method
StepsAgree ==
    pc = "done" =>
        LET h0 == [array |-> copy_from_slice(call.slice, size),
                   size |-> size, d |-> d]
            r == IF call.op = "heapify_down"
                 THEN heapify_down(h0, call.idx)
                 ELSE heapify_up(h0, call.idx) IN
        array = r.h.array /\ ret = r.ret

(* ---- the interactive menu of main.rs ---- *)

\* what get_number_input::<u32> can return for a D value: -1 stands for
\* None (the line is not a number)
DInputs == {-1} \cup DAll

\* what get_number_input::<i32> can return for an item: -1 stands for None
ItemInputs == {-1} \cup Vals

\* the numbers parsed from the "Build heap" line
MenuSlices == UNION {[1..n -> Vals] : n \in 0..MaxMenuLen}

\* the storage of a Heap that does not exist
NoArray == [i \in Idx |-> -1]

\* let mut heap: Option<Heap> = None
InitMain ==
    /\ heap = "None"
    /\ array = NoArray
    /\ size = 0
    /\ d = 0
    /\ call = CallRec("none", 0, 0, <<>>)
    /\ ret = Ok(0)
    /\ panicked = FALSE
    /\ out = NoOut
    /\ pc = "menu"
    /\ cur = 0

\* the state after a menu arm that ran the heap method with result r and
\* printed the heap when the method succeeded
MenuApply(r, c) ==
    /\ array' = r.h.array
    /\ size' = r.h.size
    /\ d' = r.h.d
    /\ call' = c
    /\ ret' = r.ret
    /\ panicked' = IsPanic(r.ret)
    /\ out' = IF r.ret.tag = "Ok" THEN print(r.h).out ELSE NoOut
    /\ UNCHANGED <<pc, cur, heap>>

\* a menu arm that only reports msg
MenuReport(msg, c) ==
    /\ call' = c
    /\ ret' = Err(msg)
    /\ out' = NoOut
    /\ UNCHANGED <<array, size, d, panicked, pc, cur, heap>>

\* Some(1) => heap = build_heap(): the Option is overwritten by the result,
\* which is None when D is rejected
MenuBuild ==
    /\ pc = "menu"
    /\ ~panicked
    /\ \E din \in DInputs :
        IF din >= 2
        THEN \E numbers \in MenuSlices :
               LET r == new(din, numbers) IN
               /\ heap' = "Some"
               /\ array' = r.h.array
               /\ size' = r.h.size
               /\ d' = r.h.d
               /\ call' = CallRec("menu_build", din, 0, numbers)
               /\ ret' = r.ret
               /\ panicked' = IsPanic(r.ret)
               /\ out' = print(r.h).out
               /\ UNCHANGED <<pc, cur>>
        ELSE /\ heap' = "None"
             /\ array' = NoArray
             /\ size' = 0
             /\ d' = 0
             /\ call' = CallRec("menu_build", din, 0, <<>>)
             /\ ret' = Err(IF din = -1 THEN "InvalidInput" ELSE "DTooSmall")
             /\ out' = NoOut
             /\ UNCHANGED <<panicked, pc, cur>>

MenuChangeD ==
    /\ pc = "menu"
    /\ ~panicked
    /\ \E din \in DInputs :
        LET c == CallRec("menu_change_d", din, 0, <<>>) IN
        IF heap = "None" THEN MenuReport("NoHeap", CallRec("menu_change_d", 0, 0, <<>>))
        ELSE IF din >= 1 THEN MenuApply(change_d(Self, din), c)
        ELSE MenuReport(IF din = -1 THEN "InvalidInput" ELSE "DTooSmall", c)

MenuExtractMax ==
    /\ pc = "menu"
    /\ ~panicked
    /\ LET c == CallRec("menu_extract_max", 0, 0, <<>>) IN
       IF heap = "None" THEN MenuReport("NoHeap", c)
       ELSE MenuApply(extract_max(Self), c)

MenuInsert ==
    /\ pc = "menu"
    /\ ~panicked
    /\ \E num \in ItemInputs :
        LET c == CallRec("menu_insert", 0, num, <<>>) IN
        IF heap = "None" THEN MenuReport("NoHeap", CallRec("menu_insert", 0, 0, <<>>))
        ELSE IF num = -1 THEN MenuReport("InvalidInput", c)
        ELSE MenuApply(insert(Self, num), c)

MenuPrint ==
    /\ pc = "menu"
    /\ ~panicked
    /\ LET c == CallRec("menu_print", 0, 0, <<>>) IN
       IF heap = "None" THEN MenuReport("NoHeap", c)
       ELSE LET r == print(Self) IN
            /\ call' = c
            /\ ret' = r.ret
            /\ out' = r.out
            /\ panicked' = (r.ret.tag = "NoReturn")
            /\ UNCHANGED <<array, size, d, pc, cur, heap>>

\* Some(6) => break
MenuExit ==
    /\ pc = "menu"
    /\ ~panicked
    /\ pc' = "exit"
    /\ call' = CallRec("menu_exit", 0, 0, <<>>)
    /\ ret' = Ok(0)
    /\ out' = NoOut
    /\ UNCHANGED <<array, size, d, panicked, cur, heap>>

\* _ => "Invalid choice"
MenuInvalid ==
    /\ pc = "menu"
    /\ ~panicked
    /\ MenuReport("InvalidChoice", CallRec("menu_invalid", 0, 0, <<>>))

NextMain ==
    \/ MenuBuild
    \/ MenuChangeD
    \/ MenuExtractMax
    \/ MenuInsert
    \/ MenuPrint
    \/ MenuExit
    \/ MenuInvalid
SpecMain == InitMain /\ [][NextMain]_vars

TypeOK ==
    /\ array \in [Idx -> AllVals]
    /\ size \in 0..HEAP_MAX_SIZE
    /\ d \in DAll
    /\ panicked \in BOOLEAN

(* ---- properties ---- *)

\* the max-heap property of Section 3 over the live range of h
HeapOK(h) ==
    \A i \in 0..(h.size - 1) : \A n \in 0..(h.d - 1) :
        LET c == i * h.d + n + 1 IN
        c < h.size => h.array[i] >= h.array[c]

\* the multiset of the live elements a[0..sz), as a count per value
LiveBag(a, sz) ==
    [v \in AllVals |-> Cardinality({i \in 0..(sz - 1) : a[i] = v})]

\* the multiset of the first n elements of a sequence
SeqBag(s, n) ==
    [v \in AllVals |-> Cardinality({i \in 1..n : s[i] = v})]

BagPlus(b, x) == [v \in AllVals |-> IF v = x THEN b[v] + 1 ELSE b[v]]
BagMinus(b, x) == [v \in AllVals |-> IF v = x THEN b[v] - 1 ELSE b[v]]

SameHeap == array' = array /\ size' = size /\ d' = d

\* the step is a call of the method op (only that method's action sets
\* call.op to op)
Called(op) == call'.op = op

\* C1: with every branching factor >= 1 (SpecPos), after each operation
\* that returned, every live node is >= each of its live children.
C1_HeapInvariant == ~panicked => HeapOK(Self)

\* C2: with every branching factor >= 1 (SpecPos), extract_max succeeds
\* exactly on a non-empty heap, and a successful extract_max that directly
\* follows a successful extract_max returns a value no larger than it.
C2_ExtractionOrder ==
    [][ExtractMax =>
        /\ (size > 0 => ret'.tag = "Ok")
        /\ (size = 0 => ret'.tag = "EmptyHeap")
        /\ (call.op = "extract_max" /\ ret.tag = "Ok" /\ ret'.tag = "Ok"
              => ret'.val <= ret.val)]_vars

\* C3: insert on a heap with size = HEAP_MAX_SIZE returns HeapFull and
\* leaves array, size and d as they were.
C3_InsertFull ==
    [][(Called("insert") /\ size = HEAP_MAX_SIZE) =>
        (ret'.tag = "HeapFull" /\ SameHeap)]_vars

C3_Witness ==
    call.op = "insert" /\ ret.tag = "HeapFull" /\ size = HEAP_MAX_SIZE

\* C4: extract_max on a heap with size = 0 returns EmptyHeap and leaves
\* array, size and d as they were.
C4_ExtractEmpty ==
    [][(Called("extract_max") /\ size = 0) =>
        (ret'.tag = "EmptyHeap" /\ SameHeap)]_vars

C4_Witness ==
    call.op = "extract_max" /\ ret.tag = "EmptyHeap" /\ size = 0

\* C5: in every reachable state, also after a failed call,
\* 0 <= size <= HEAP_MAX_SIZE.
C5_SizeBounds == 0 <= size /\ size <= HEAP_MAX_SIZE

\* the bound is met from below and a further insert has been refused
C5_Witness ==
    /\ size = HEAP_MAX_SIZE
    /\ call.op = "insert"
    /\ ret.tag = "HeapFull"
    /\ \E i \in Idx : array[i] # array[0]

\* C6: change_d keeps size and the multiset of live elements, for every
\* heap state and every new d.
C6_ChangeDKeepsElements ==
    [][Called("change_d") =>
        (size' = size /\ LiveBag(array', size') = LiveBag(array, size))]_vars

\* a rebuilt heap of at least three elements with distinct values in it
C6_Witness ==
    /\ call.op = "change_d"
    /\ size >= 3
    /\ array[0] > array[2]
    /\ array[2] > array[1]

\* C7: change_d(0) is rejected: it returns an error and does not set the
\* branching factor to 0.
C7_ChangeDZeroRejected ==
    [][(ChangeD /\ call'.d = 0) => (ret'.tag # "Ok" /\ d' = d)]_vars

\* C8: the division (idx - 1) / d of get_parent is never executed with
\* d = 0.
C8_NoDivByZero == ret.tag # "DivByZero"

\* C9: a successful insert adds exactly the item and a successful
\* extract_max removes exactly the returned value, which is the old root;
\* neither changes d.
C9_Accounting ==
    [][/\ (Called("insert") /\ ret'.tag = "Ok") =>
            /\ size' = size + 1
            /\ LiveBag(array', size') = BagPlus(LiveBag(array, size), call'.item)
            /\ d' = d
       /\ (Called("extract_max") /\ ret'.tag = "Ok") =>
            /\ ret'.val = array[0]
            /\ size' = size - 1
            /\ LiveBag(array', size') = BagMinus(LiveBag(array, size), ret'.val)
            /\ d' = d]_vars

\* an extract_max that returned a value larger than the new root and left
\* at least two elements
C9_Witness ==
    /\ call.op = "extract_max"
    /\ ret.tag = "Ok"
    /\ size >= 2
    /\ ret.val > array[0]

\* C10: Heap::new never fails; size is min(len, HEAP_MAX_SIZE) and the live
\* multiset is that of the first size input values.
C10_ConstructClamps ==
    call.op = "new" =>
        /\ ret.tag = "Ok"
        /\ size = Min(Len(call.slice), HEAP_MAX_SIZE)
        /\ LiveBag(array, size) = SeqBag(call.slice, size)

\* a construction from more than HEAP_MAX_SIZE values whose excess value
\* differs from the first one
C10_Witness ==
    /\ call.op = "new"
    /\ Len(call.slice) > HEAP_MAX_SIZE
    /\ size = HEAP_MAX_SIZE
    /\ call.slice[Len(call.slice)] # call.slice[1]

\* C11: whenever d >= 1, insert has returned only Ok or HeapFull,
\* extract_max only Ok or EmptyHeap, and the rebuild of Heap::new and
\* change_d has returned without aborting: no structural signal escapes.
C11_NoEscape ==
    d >= 1 =>
        /\ (call.op = "insert" => ret.tag \in {"Ok", "HeapFull"})
        /\ (call.op = "extract_max" => ret.tag \in {"Ok", "EmptyHeap"})
        /\ (call.op \in {"new", "change_d"} => ret.tag = "Ok")

\* a rebuild of a full heap whose sift-down met missing child slots
C11_Witness ==
    /\ call.op = "change_d"
    /\ d >= 2
    /\ size = HEAP_MAX_SIZE
    /\ ret.tag = "Ok"

\* b to the power e
RECURSIVE Pow(_, _)
Pow(b, e) == IF e = 0 THEN 1 ELSE b * Pow(b, e - 1)

\* s_k of C12: the first position of level k, 1 + dd + ... + dd^(k-1)
RECURSIVE LevelStart(_, _)
LevelStart(k, dd) ==
    IF k = 0 THEN 0 ELSE LevelStart(k - 1, dd) + Pow(dd, k - 1)

\* the levels L group the live positions of h as C12 says
LevelsOK(L, h) ==
    /\ \A k \in 1..Len(L) :
        LET s == LevelStart(k - 1, h.d)
            e == Min(h.size, s + Pow(h.d, k - 1)) IN
        /\ L[k].level = k - 1
        /\ s < h.size
        /\ L[k].vals = [j \in 1..(e - s) |-> h.array[s + j - 1]]
    /\ LevelStart(Len(L), h.d) >= h.size

\* C12: print leaves the heap unchanged; on an empty heap it reports
\* "empty"; with size >= 1 and d >= 1 it returns and its levels are
\* [s_k, min(size, s_k + d^k)) for k = 0, 1, ..., covering every live
\* position once, in index order.
C12_PrintLevels ==
    [][Called("print") =>
        /\ SameHeap
        /\ out'.d = d
        /\ (size = 0 =>
              ret'.tag = "Ok" /\ out'.empty /\ out'.levels = <<>>)
        /\ (size >= 1 /\ d >= 1 =>
              ret'.tag = "Ok" /\ ~out'.empty /\ LevelsOK(out'.levels, Self))]_vars

\* a print of at least three levels of a heap with d >= 2
C12_Witness ==
    /\ call.op = "print"
    /\ ret.tag = "Ok"
    /\ d >= 2
    /\ Len(out.levels) >= 3

\* C13: for d >= 1, a successful insert or extract_max that starts from a
\* heap satisfying the max-heap property ends in one satisfying it over the
\* new live range.
C13_MutatorsPreserve ==
    [][((Called("insert") \/ Called("extract_max")) /\ d >= 1 /\ HeapOK(Self) /\ ret'.tag = "Ok") =>
        HeapOK([array |-> array', size |-> size', d |-> d'])]_vars

\* an insert into a chain (d = 1) whose item climbed past the old root
C13_Witness ==
    /\ call.op = "insert"
    /\ ret.tag = "Ok"
    /\ d = 1
    /\ size >= 3
    /\ array[0] = call.item
    /\ array[1] < array[0]
    /\ HeapOK(Self)

\* C14: for d >= 1, every index with at least one live child lies in the
\* range 0 .. size/2 - 1 that build_heap visits.
C14_RangeCoversInternal ==
    d >= 1 =>
        \A i \in 0..(size - 1) : (i * d + 1 < size) => i < build_range(size)

\* j lies in the subtree rooted at r (branching factor dd >= 1)
RECURSIVE IsDesc(_, _, _)
IsDesc(j, r, dd) ==
    IF j = r THEN TRUE
    ELSE IF j < r \/ j = 0 THEN FALSE
    ELSE IsDesc((j - 1) \div dd, r, dd)

\* the live positions of the subtree of h rooted at r
Subtree(h, r) == {j \in 0..(h.size - 1) : IsDesc(j, r, h.d)}

\* the live children of position i
Children(h, i) ==
    {c \in 0..(h.size - 1) : \E n \in 0..(h.d - 1) : c = i * h.d + n + 1}

\* the max-heap property inside the subtree rooted at r
SubtreeOK(h, r) ==
    \A i \in Subtree(h, r) : \A c \in Children(h, i) : h.array[i] >= h.array[c]

\* the multiset of the values at the positions P
BagOn(a, P) == [v \in AllVals |-> Cardinality({i \in P : a[i] = v})]

SelfNext == [array |-> array', size |-> size', d |-> d']

\* C15: for d >= 1 and idx < size, if the subtrees of all live children of
\* idx are heaps, then after heapify_down(idx) the subtree of idx is a heap,
\* array[idx] is its maximum, positions outside it are unchanged and its
\* multiset of values is unchanged.
C15_SiftDownPost ==
    [][(/\ Called("heapify_down")
        /\ d >= 1
        /\ call'.idx < size
        /\ \A c \in Children(Self, call'.idx) : SubtreeOK(Self, c)) =>
       LET T == Subtree(Self, call'.idx) IN
       /\ ret'.tag = "Ok"
       /\ size' = size /\ d' = d
       /\ SubtreeOK(SelfNext, call'.idx)
       /\ \A j \in T : array'[call'.idx] >= array'[j]
       /\ \A j \in Idx \ T : array'[j] = array[j]
       /\ BagOn(array', T) = BagOn(array, T)]_vars

\* a sift-down from the root that moved the root value two levels down
C15_Witness ==
    /\ call.op = "heapify_down"
    /\ call.idx = 0
    /\ ret.tag = "Ok"
    /\ d = 2
    /\ size >= 4
    /\ array[3] < array[1]
    /\ array[1] <= array[0]
    /\ array[2] < array[1]
    /\ HeapOK(Self)

\* the quotient floor(a / b) for a >= 0, b >= 1, by its defining bounds
FloorDiv(a, b) == CHOOSE q \in 0..a : q * b <= a /\ a < (q + 1) * b

\* C16: get_parent returns ParentReachedEnd exactly for idx = 0; for
\* idx > 0 and d >= 1 it returns floor((idx - 1) / d) when that is < size and
\* NoSuchParent otherwise; for a live idx >= 1 the result is Ok and < idx;
\* the heap is not modified.
C16_ParentOf ==
    [][Called("get_parent") =>
        LET i == call'.idx IN
        /\ SameHeap
        /\ (ret'.tag = "ParentReachedEnd" <=> i = 0)
        /\ (i > 0 /\ d >= 1 =>
              IF FloorDiv(i - 1, d) < size
              THEN ret' = Ok(FloorDiv(i - 1, d))
              ELSE ret'.tag = "NoSuchParent")
        /\ (i >= 1 /\ i < size /\ d >= 1 =>
              ret'.tag = "Ok" /\ ret'.val < i)]_vars

\* a parent query of a live index that is not a child of the root
C16_Witness ==
    /\ call.op = "get_parent"
    /\ ret.tag = "Ok"
    /\ ret.val >= 1
    /\ call.idx < size
    /\ d >= 2

\* C17: get_n_son returns InvalidSonIndex whenever n >= d; otherwise
\* idx * d + n + 1 when that is < size and SonReachedEnd when it is not;
\* the heap is not modified.
C17_NthChildOf ==
    [][Called("get_n_son") =>
        LET i == call'.idx
            n == call'.n IN
        /\ SameHeap
        /\ (n >= d => ret'.tag = "InvalidSonIndex")
        /\ (n < d =>
              IF i * d + n + 1 < size
              THEN ret' = Ok(i * d + n + 1)
              ELSE ret'.tag = "SonReachedEnd")]_vars

\* a rejected child slot n = d on a heap whose position idx * d + n + 1 is
\* live
C17_Witness ==
    /\ call.op = "get_n_son"
    /\ ret.tag = "InvalidSonIndex"
    /\ call.n = d
    /\ d >= 1
    /\ call.idx * d + call.n + 1 < size

\* C18: heapify_down(idx) leaves the array unchanged when no live child of
\* idx is strictly greater than array[idx]; heapify_up(idx) leaves it
\* unchanged when idx = 0 or the parent is not strictly smaller; an insert
\* of a value equal to its parent's leaves the item at position size.
C18_TiesDoNotSwap ==
    [][/\ (Called("heapify_down") /\
             \A c \in Children(Self, call'.idx) : array[c] <= array[call'.idx])
          => array' = array
       /\ (Called("heapify_up") /\
             (call'.idx = 0 \/
                (d >= 1 /\ array[(call'.idx - 1) \div d] >= array[call'.idx])))
          => array' = array
       /\ (Called("insert") /\ ret'.tag = "Ok" /\ d >= 1 /\ size >= 1 /\
             call'.item = array[(size - 1) \div d])
          => array' = [array EXCEPT ![size] = call'.item]]_vars

\* a sift-down that stopped at a node tied with a child while a strictly
\* greater grandchild sits below that child
C18_Witness ==
    /\ call.op = "heapify_down"
    /\ call.idx = 0
    /\ d = 1
    /\ size >= 3
    /\ array[0] = array[1]
    /\ array[2] > array[1]

\* C19: for d >= 1, every recursive call of heapify_down is made on a
\* strictly larger index that is < size, every recursive call of heapify_up
\* on a strictly smaller index, and every sift eventually returns.
C19_Terminates ==
    /\ [][/\ (pc = "down" /\ pc' = "down") => (cur' > cur /\ cur' < size)
          /\ (pc = "up" /\ pc' = "up") => (cur' < cur /\ cur' >= 0)]_vars
    /\ <>(pc = "done")

\* a sift-down that returned after at least two recursive calls
C19_Witness ==
    /\ pc = "done"
    /\ call.op = "heapify_down"
    /\ call.idx = 0
    /\ cur >= 2
    /\ ret.tag = "Ok"

\* C20: a "Build heap" command that is rejected while a heap exists leaves
\* that heap in place, so that the following commands still operate on it.
C20_RejectedBuildKeepsHeap ==
    [][(Called("menu_build") /\ ret'.tag # "Ok" /\ heap = "Some") =>
        (heap' = "Some" /\ SameHeap)]_vars

====
